---- MODULE Spec2Model ----
(***************************************************************************)
(* Background video upload sync service (services/syncService.ts) with the *)
(* local blob store (services/storageService.ts), the metadata repository  *)
(* (services/firestoreService.ts) and the uploader (services/gcsService.ts)*)
(* as its collaborators.                                                   *)
(*                                                                         *)
(* Every call of enqueue() or init() is an asynchronous call chain.  A     *)
(* chain runs in a slot of Callers; a step of the model is the code that   *)
(* runs between two awaits.  An IndexedDB request takes effect in the      *)
(* order in which requests are issued, so a put / delete / getAll is       *)
(* applied in the step that issues it and the code after the await is the  *)
(* next step of the chain.                                                 *)
(***************************************************************************)
EXTENDS Integers, Sequences, FiniteSets, TLC

\* ---- bounds of the model ----
NumCallers == 2
MaxEnqueues == 2
MaxFullChunks == 2

\* ---- program constants ----
MAX_RETRIES == 5
QUEUE_DB_VERSION == 3
DB_VERSION == 1
CHUNK_SIZE == 5242880

Sessions == {1, 2}
Callers == 1..NumCallers
Trainers == {"t1"}
BlobTypes == {"video/webm"}

NULL == "null"
NoTask == [id |-> NULL]
NoBlob == "absent"
NOW == "timestamp"

VARIABLES
  \* persistent local database BestDayTrainingDB
  dbVersion,      \* 0 = database does not exist
  queue,          \* records of object store syncQueue
  videos,         \* object store videos: blobKey -> blob type or NoBlob
  \* module state of syncService.ts in the running process
  db,             \* cached connection of the queue module is open
  isProcessing,
  online,         \* navigator.onLine
  \* the asynchronous call chains
  pc, trainerArg, pending, task, blob,
  \* observation (not program state)
  enqCount,       \* number of enqueue calls per session
  failedAttempts, \* failed attempts resolved since the last enqueue
  failedNotes,    \* number of onStatus(sessionId, 'failed') deliveries
  metaSent,       \* last syncStatus / videoPath sent to the repository
  initRan,        \* a pass was started by init() in this process
  \* the uploader (gcsService.ts) and the upload-target function
  upload,         \* the running call of uploadBlobResumable
  urlCall         \* the last call of getUploadUrl with its outcome

vars == <<dbVersion, queue, videos, db, isProcessing, online,
          pc, trainerArg, pending, task, blob,
          enqCount, failedAttempts, failedNotes, metaSent, initRan,
          upload, urlCall>>

persistentVars == <<dbVersion, queue, videos>>
chainVars == <<pc, trainerArg, pending, task, blob>>
obsVars == <<enqCount, failedAttempts, failedNotes, metaSent, initRan>>
uploaderVars == <<upload, urlCall>>
orchestratorVars == <<persistentVars, db, isProcessing, online, chainVars,
                      obsVars>>

\* ---- helpers on the queue store ----

\* id: `sync-${sessionId}`
TaskId(sessionId) == <<"sync", sessionId>>

\* gcsPath: `trainers/${trainerId}/sessions/${sessionId}/recording.${ext}`
GcsPath(trainerId, sessionId, ext) ==
  [trainer |-> trainerId, session |-> sessionId, ext |-> ext]

\* objectStore.put(task) on a store with keyPath 'id': upsert by id
queuePutDup(q, t) == q \cup {t}
queuePut(q, t) == {x \in q : x.id # t.id} \cup {t}

\* objectStore.delete(id)
queueDelete(q, id) == {x \in q : x.id # id}

RECURSIVE SetToSeq(_)
SetToSeq(S) ==
  IF S = {} THEN <<>>
  ELSE LET x == CHOOSE y \in S : TRUE IN <<x>> \o SetToSeq(S \ {x})

\* objectStore.getAll(): the records in key order
RECURSIVE SortById(_, _)
SortById(q, n) ==
  IF n \notin Sessions THEN <<>>
  ELSE SetToSeq({x \in q : x.id = TaskId(n)}) \o SortById(q, n + 1)

queueGetAll(q) == SortById(q, 1)

\* indexedDB.open(DB_NAME, 3) of getDb(): creates the database or upgrades
\* it, adding the missing stores and keeping the stored records
getDb(version) == IF version < QUEUE_DB_VERSION THEN QUEUE_DB_VERSION ELSE version

\* tasks.filter(t => t.status === 'pending' && t.retryCount < MAX_RETRIES)
IsPendingLoose(t) == t.status # "in_progress"
IsPending(t) == t.status = "pending" /\ t.retryCount < MAX_RETRIES

\* the task enqueue() builds
NewTask(trainerId, sessionId, blobKey) ==
  [id |-> TaskId(sessionId), sessionId |-> sessionId, type |-> "video_upload",
   status |-> "pending", retryCount |-> 0, lastAttempt |-> NULL,
   gcsPath |-> GcsPath(trainerId, sessionId, "webm"), blobKey |-> blobKey]

\* no call of uploadBlobResumable / getUploadUrl was made yet
NoUpload ==
  [st |-> "idle", contentType |-> NULL, uriError |-> NULL,
   totalSize |-> 0, offset |-> 0, end |-> 0,
   requests |-> <<>>, progress |-> <<>>, lastStatus |-> 0]
NoCall ==
  [called |-> FALSE, auth |-> NULL, path |-> <<>>, contentType |-> NULL,
   result |-> [error |-> NULL, returned |-> FALSE, created |-> {}]]

TypeOK ==
  /\ dbVersion \in {0, DB_VERSION, QUEUE_DB_VERSION}
  /\ db \in BOOLEAN /\ isProcessing \in BOOLEAN /\ online \in BOOLEAN
  /\ \A t \in queue : t.status \in {"pending", "in_progress", "failed"}
  /\ pc \in [Callers -> {"idle", "enqueue", "init", "loop", "marked", "reading",
                         "uploading", "synced", "failing", "thrown"}]

Init ==
  /\ dbVersion = 0
  /\ queue = {}
  /\ videos = [s \in Sessions |-> NoBlob]
  /\ db = FALSE
  /\ isProcessing = FALSE
  /\ online = TRUE
  /\ pc = [c \in Callers |-> "idle"]
  /\ trainerArg = [c \in Callers |-> NULL]
  /\ pending = [c \in Callers |-> <<>>]
  /\ task = [c \in Callers |-> NoTask]
  /\ blob = [c \in Callers |-> NoBlob]
  /\ enqCount = [s \in Sessions |-> 0]
  /\ failedAttempts = [s \in Sessions |-> 0]
  /\ failedNotes = [s \in Sessions |-> 0]
  /\ metaSent = [s \in Sessions |-> [syncStatus |-> NULL, videoPath |-> NULL]]
  /\ initRan = FALSE
  /\ upload = NoUpload
  /\ urlCall = NoCall

\* ---- syncService.ts: enqueue ----

\* processQueue, line 123: if (isProcessing || !navigator.onLine) return;
CanStartPassNoFlag(processing, onLine) == onLine
CanStartPassNoOnline(processing, onLine) == ~processing
CanStartPass(processing, onLine) == ~(processing \/ ~onLine)

Idle(c) ==
  /\ pc' = [pc EXCEPT ![c] = "idle"]
  /\ trainerArg' = [trainerArg EXCEPT ![c] = NULL]
  /\ pending' = [pending EXCEPT ![c] = <<>>]
  /\ task' = [task EXCEPT ![c] = NoTask]
  /\ blob' = [blob EXCEPT ![c] = NoBlob]

RECURSIVE SumOver(_, _)
SumOver(f, S) ==
  IF S = {} THEN 0
  ELSE LET x == CHOOSE y \in S : TRUE IN f[x] + SumOver(f, S \ {x})

EnqueuesSoFar == SumOver(enqCount, Sessions)

\* a new call chain takes the first free slot
FreeSlot(c) == pc[c] = "idle" /\ \A d \in Callers : d < c => pc[d] # "idle"

\* enqueue up to `await queuePut(task)`
Enqueue(c, trainerId, sessionId) ==
  /\ FreeSlot(c)
  /\ EnqueuesSoFar < MaxEnqueues
  /\ dbVersion' = getDb(dbVersion)
  /\ db' = TRUE
  /\ queue' = queuePut(queue, NewTask(trainerId, sessionId, sessionId))
  /\ pc' = [pc EXCEPT ![c] = "enqueue"]
  /\ trainerArg' = [trainerArg EXCEPT ![c] = trainerId]
  /\ enqCount' = [enqCount EXCEPT ![sessionId] = @ + 1]
  /\ failedAttempts' = [failedAttempts EXCEPT ![sessionId] = 0]
  /\ UNCHANGED <<videos, isProcessing, online, pending, task, blob,
                 failedNotes, metaSent, initRan>>
  /\ UNCHANGED uploaderVars

\* processQueue up to `await queueGetAll()`, called from enqueue and init
processQueue(c) ==
  IF CanStartPass(isProcessing, online)
  THEN /\ isProcessing' = TRUE
       /\ pending' = [pending EXCEPT
                        ![c] = SelectSeq(queueGetAll(queue), IsPending)]
       /\ pc' = [pc EXCEPT ![c] = "loop"]
       /\ initRan' = (initRan \/ pc[c] = "init")
       /\ UNCHANGED <<trainerArg, task, blob>>
  ELSE /\ Idle(c)
       /\ UNCHANGED <<isProcessing, initRan>>

\* enqueue after `await queuePut(task)`: processQueue(trainerId)
EnqueueTrigger(c) ==
  /\ pc[c] = "enqueue"
  /\ processQueue(c)
  /\ UNCHANGED <<persistentVars, db, online, enqCount, failedAttempts,
                 failedNotes, metaSent>>
  /\ UNCHANGED uploaderVars

\* init up to `await queueGetAll()`
InitCall(c, trainerId) ==
  /\ FreeSlot(c)
  /\ dbVersion' = getDb(dbVersion)
  /\ db' = TRUE
  /\ IF \E t \in queue : t.status = "pending" \/ t.status = "in_progress"
     THEN /\ pc' = [pc EXCEPT ![c] = "init"]
          /\ trainerArg' = [trainerArg EXCEPT ![c] = trainerId]
     ELSE UNCHANGED <<pc, trainerArg>>
  /\ UNCHANGED <<queue, videos, isProcessing, online, pending, task, blob,
                 obsVars>>
  /\ UNCHANGED uploaderVars

\* init after `await queueGetAll()`: processQueue(trainerId)
InitTrigger(c) ==
  /\ pc[c] = "init"
  /\ processQueue(c)
  /\ UNCHANGED <<persistentVars, db, online, enqCount, failedAttempts,
                 failedNotes, metaSent>>
  /\ UNCHANGED uploaderVars

\* ---- syncService.ts: processQueue loop and processTask ----

SessionOf(c) == task[c].sessionId

\* updateDoc rejects when the document trainers/{trainerId}/sessions/{id}
\* does not exist; the session document is created by the producer under the
\* trainer that enqueued the task.  A write can also fail for other reasons.
MetaOutcomes(c) ==
  IF trainerArg[c] = task[c].gcsPath.trainer THEN BOOLEAN ELSE {FALSE}

\* the catch block's mutation of the task, lines 169-173
CaughtOffByOne(t) ==
  LET u == [t EXCEPT !.status = "pending", !.retryCount = @ + 1]
  IN  IF u.retryCount > MAX_RETRIES THEN [u EXCEPT !.status = "failed"] ELSE u
CaughtNoIncrement(t) == [t EXCEPT !.status = "pending"]
CaughtNeverFails(t) == [t EXCEPT !.status = "pending", !.retryCount = @ + 1]
CaughtOfflineFree(t) ==
  LET u == [t EXCEPT !.status = "pending",
                     !.retryCount = IF online THEN @ + 1 ELSE @]
  IN  IF u.retryCount >= MAX_RETRIES THEN [u EXCEPT !.status = "failed"] ELSE u
Caught(t) ==
  LET u == [t EXCEPT !.status = "pending", !.retryCount = @ + 1]
  IN  IF u.retryCount >= MAX_RETRIES THEN [u EXCEPT !.status = "failed"] ELSE u

\* uploadVideoToGcs, line 75: blob.type.includes('mp4') ? 'mp4' : 'webm'
ExtOfWebm(blobType) == "webm"
ExtOf(blobType) == IF blobType = "video/mp4" THEN "mp4" ELSE "webm"

\* finally { isProcessing = false } once the for loop is over
EndPass(c) ==
  /\ pc[c] = "loop"
  /\ pending[c] = <<>>
  /\ isProcessing' = FALSE
  /\ Idle(c)
  /\ UNCHANGED <<persistentVars, db, online, obsVars>>
  /\ UNCHANGED uploaderVars

\* a rejection that leaves processTask: the for loop of processQueue is
\* abandoned, its finally block runs and the call chain ends
ThrowKeepsFlag(c) ==
  /\ isProcessing' = isProcessing
  /\ Idle(c)
Throw(c) ==
  /\ isProcessing' = FALSE
  /\ Idle(c)

\* processTask lines 140-142: mark in progress, `await queuePut(task)`;
\* the write is outside the try block
BeginTask(c, putOk) ==
  /\ pc[c] = "loop"
  /\ pending[c] # <<>>
  /\ IF putOk
     THEN LET t == [Head(pending[c]) EXCEPT !.status = "in_progress",
                                            !.lastAttempt = NOW]
          IN  /\ queue' = queuePut(queue, t)
              /\ task' = [task EXCEPT ![c] = t]
              /\ pending' = [pending EXCEPT ![c] = Tail(@)]
              /\ pc' = [pc EXCEPT ![c] = "marked"]
              /\ UNCHANGED <<isProcessing, trainerArg, blob>>
     ELSE /\ Throw(c)
          /\ UNCHANGED queue
  /\ UNCHANGED <<dbVersion, videos, db, online, obsVars>>
  /\ UNCHANGED uploaderVars

\* lines 144-145: onStatus 'uploading', updateSession 'uploading' (caught)
NotifyUploading(c, ok) ==
  /\ pc[c] = "marked"
  /\ ok \in MetaOutcomes(c)
  /\ metaSent' = [metaSent EXCEPT ![SessionOf(c)].syncStatus = "uploading"]
  /\ pc' = [pc EXCEPT ![c] = "reading"]
  /\ UNCHANGED <<persistentVars, db, isProcessing, online, trainerArg, pending,
                 task, blob, enqCount, failedAttempts, failedNotes, initRan>>
  /\ UNCHANGED uploaderVars

\* lines 167-178 up to the first await of the catch block: either
\* `await updateSession 'failed'` (budget exhausted) or `await queuePut(task)`
CatchBlockNotifies(c, putOk) ==
  LET t == Caught(task[c]) IN
  IF t.status = "failed"
  THEN /\ task' = [task EXCEPT ![c] = t]
       /\ metaSent' = [metaSent EXCEPT ![t.sessionId].syncStatus = "failed"]
       /\ pc' = [pc EXCEPT ![c] = "failing"]
       /\ blob' = [blob EXCEPT ![c] = NoBlob]
       /\ UNCHANGED <<queue, failedAttempts, isProcessing, trainerArg, pending>>
  ELSE IF putOk
  THEN /\ queue' = queuePut(queue, t)
       /\ failedAttempts' = [failedAttempts EXCEPT ![t.sessionId] = @ + 1]
       /\ task' = [task EXCEPT ![c] = NoTask]
       /\ pc' = [pc EXCEPT ![c] = "loop"]
       /\ blob' = [blob EXCEPT ![c] = NoBlob]
       /\ metaSent' = [metaSent EXCEPT ![t.sessionId].syncStatus = "pending"]
       /\ UNCHANGED <<isProcessing, trainerArg, pending>>
  ELSE /\ Throw(c)
       /\ UNCHANGED <<queue, failedAttempts, metaSent>>
CatchBlock(c, putOk) ==
  LET t == Caught(task[c]) IN
  IF t.status = "failed"
  THEN /\ task' = [task EXCEPT ![c] = t]
       /\ metaSent' = [metaSent EXCEPT ![t.sessionId].syncStatus = "failed"]
       /\ pc' = [pc EXCEPT ![c] = "failing"]
       /\ blob' = [blob EXCEPT ![c] = NoBlob]
       /\ UNCHANGED <<queue, failedAttempts, isProcessing, trainerArg, pending>>
  ELSE IF putOk
  THEN /\ queue' = queuePut(queue, t)
       /\ failedAttempts' = [failedAttempts EXCEPT ![t.sessionId] = @ + 1]
       /\ task' = [task EXCEPT ![c] = NoTask]
       /\ pc' = [pc EXCEPT ![c] = "loop"]
       /\ blob' = [blob EXCEPT ![c] = NoBlob]
       /\ UNCHANGED <<metaSent, isProcessing, trainerArg, pending>>
  ELSE /\ Throw(c)
       /\ UNCHANGED <<queue, failedAttempts, metaSent>>

\* lines 148-149: getVideo(task.blobKey); an absent blob throws
ReadBlob(c, putOk) ==
  /\ pc[c] = "reading"
  /\ IF videos[task[c].blobKey] = NoBlob
     THEN CatchBlock(c, putOk)
     ELSE /\ blob' = [blob EXCEPT ![c] = videos[task[c].blobKey]]
          /\ pc' = [pc EXCEPT ![c] = "uploading"]
          /\ UNCHANGED <<queue, task, failedAttempts, metaSent, isProcessing,
                         trainerArg, pending>>
  /\ UNCHANGED <<dbVersion, videos, db, online, enqCount, failedNotes, initRan>>
  /\ UNCHANGED uploaderVars

\* lines 151-162: uploadVideoToGcs, then `await updateSession 'synced'`
Upload(c, ok, putOk) ==
  /\ pc[c] = "uploading"
  /\ IF ok
     THEN /\ metaSent' = [metaSent EXCEPT ![SessionOf(c)] =
               [syncStatus |-> "synced",
                videoPath |-> GcsPath(trainerArg[c], SessionOf(c),
                                      ExtOf(blob[c]))]]
          /\ pc' = [pc EXCEPT ![c] = "synced"]
          /\ blob' = [blob EXCEPT ![c] = NoBlob]
          /\ UNCHANGED <<queue, task, failedAttempts, isProcessing, trainerArg,
                         pending>>
     ELSE CatchBlock(c, putOk)
  /\ UNCHANGED <<dbVersion, videos, db, online, enqCount, failedNotes, initRan>>
  /\ UNCHANGED uploaderVars

\* lines 159-165 after the write of 'synced': when it resolved, onStatus
\* 'synced' and `await queueDelete(task.id)`; when the write or the delete
\* rejected, the catch block
AfterSyncedDeletesBlob(c, ok, deleteOk, putOk) ==
  /\ pc[c] = "synced"
  /\ ok \in MetaOutcomes(c)
  /\ IF ok /\ deleteOk
     THEN /\ queue' = queueDelete(queue, task[c].id)
          /\ videos' = [videos EXCEPT ![task[c].blobKey] = NoBlob]
          /\ task' = [task EXCEPT ![c] = NoTask]
          /\ pc' = [pc EXCEPT ![c] = "loop"]
          /\ UNCHANGED <<failedAttempts, metaSent, isProcessing, trainerArg,
                         pending, blob>>
     ELSE CatchBlock(c, putOk) /\ UNCHANGED videos
  /\ UNCHANGED <<dbVersion, db, online, enqCount, failedNotes, initRan>>
  /\ UNCHANGED uploaderVars
AfterSynced(c, ok, deleteOk, putOk) ==
  /\ pc[c] = "synced"
  /\ ok \in MetaOutcomes(c)
  /\ IF ok /\ deleteOk
     THEN /\ queue' = queueDelete(queue, task[c].id)
          /\ task' = [task EXCEPT ![c] = NoTask]
          /\ pc' = [pc EXCEPT ![c] = "loop"]
          /\ UNCHANGED <<failedAttempts, metaSent, isProcessing, trainerArg,
                         pending, blob>>
     ELSE CatchBlock(c, putOk)
  /\ UNCHANGED <<dbVersion, videos, db, online, enqCount, failedNotes, initRan>>
  /\ UNCHANGED uploaderVars

\* lines 174-178 after the write of 'failed' (caught): onStatus 'failed',
\* `await queuePut(task)`
FinishFailed(c, ok, putOk) ==
  /\ pc[c] = "failing"
  /\ ok \in MetaOutcomes(c)
  /\ failedNotes' = [failedNotes EXCEPT ![SessionOf(c)] = @ + 1]
  /\ IF putOk
     THEN /\ queue' = queuePut(queue, task[c])
          /\ failedAttempts' = [failedAttempts EXCEPT ![SessionOf(c)] = @ + 1]
          /\ task' = [task EXCEPT ![c] = NoTask]
          /\ pc' = [pc EXCEPT ![c] = "loop"]
          /\ UNCHANGED <<isProcessing, trainerArg, pending, blob>>
     ELSE /\ Throw(c)
          /\ UNCHANGED <<queue, failedAttempts>>
  /\ UNCHANGED <<dbVersion, videos, db, online, enqCount, metaSent, initRan>>
  /\ UNCHANGED uploaderVars

\* ---- storageService.ts: the blob store on the same database ----

\* initDB: indexedDB.open(DB_NAME, 1) raises VersionError when the stored
\* version is higher; the database is then deleted and recreated at version 1
\* with the store videos only.  While the queue module holds its connection
\* the deletion stays blocked, so the wipe happens only before getDb() ran in
\* this process.
InitDBWipes == ~db /\ dbVersion > DB_VERSION

\* saveVideo(id, blob), called by the producer
SaveVideo(sessionId, blobType) ==
  /\ videos[sessionId] = NoBlob
  /\ IF InitDBWipes
     THEN /\ dbVersion' = DB_VERSION
          /\ queue' = {}
          /\ videos' = [s \in Sessions |->
                          IF s = sessionId THEN blobType ELSE NoBlob]
     ELSE /\ dbVersion' = IF dbVersion = 0 THEN DB_VERSION ELSE dbVersion
          /\ queue' = queue
          /\ videos' = [videos EXCEPT ![sessionId] = blobType]
  /\ UNCHANGED <<db, isProcessing, online, chainVars, obsVars>>
  /\ UNCHANGED uploaderVars

\* getVideo / getAllSessionIds called by the views before the queue module
\* opened the database
OpenBlobStore ==
  /\ InitDBWipes
  /\ dbVersion' = DB_VERSION
  /\ queue' = {}
  /\ videos' = [s \in Sessions |-> NoBlob]
  /\ UNCHANGED <<db, isProcessing, online, chainVars, obsVars>>
  /\ UNCHANGED uploaderVars

\* ---- environment ----

\* the page is closed or reloaded: module state and call chains are gone
Restart ==
  /\ db' = FALSE
  /\ isProcessing' = FALSE
  /\ pc' = [c \in Callers |-> "idle"]
  /\ trainerArg' = [c \in Callers |-> NULL]
  /\ pending' = [c \in Callers |-> <<>>]
  /\ task' = [c \in Callers |-> NoTask]
  /\ blob' = [c \in Callers |-> NoBlob]
  /\ initRan' = FALSE
  /\ UNCHANGED <<persistentVars, online, enqCount, failedAttempts,
                 failedNotes, metaSent>>
  /\ UNCHANGED uploaderVars

GoOffline ==
  /\ online
  /\ online' = FALSE
  /\ UNCHANGED <<persistentVars, db, isProcessing, chainVars, obsVars>>
  /\ UNCHANGED uploaderVars

\* the 'online' listener of syncService.ts only logs
GoOnline ==
  /\ ~online
  /\ online' = TRUE
  /\ UNCHANGED <<persistentVars, db, isProcessing, chainVars, obsVars>>
  /\ UNCHANGED uploaderVars

\* ---- gcsService.ts: uploadBlobResumable ----

\* blob.size: full chunks followed by nothing, 1 byte, 2 MiB or a chunk
\* less one byte
Remainders == {0, 1, 2 * 1024 * 1024, CHUNK_SIZE - 1}
BlobSizes == {k * CHUNK_SIZE + r : k \in 0..MaxFullChunks, r \in Remainders}

\* response.status of a chunk PUT; response.ok is status 200..299
HttpStatuses == {200, 308, 503}
ResponseOkAny(status) == TRUE
ResponseOk(status) == status >= 200 /\ status <= 299

Min(a, b) == IF a < b THEN a ELSE b

\* const end = Math.min(offset + CHUNK_SIZE, totalSize)
ChunkEndNoMin(offset, totalSize) == offset + CHUNK_SIZE
ChunkEnd(offset, totalSize) == Min(offset + CHUNK_SIZE, totalSize)

\* Math.round((offset / totalSize) * 100): the nearest integer, a half
\* rounds up
Percent(offset, totalSize) ==
  LET n == 100 * offset
  IN IF 2 * (n % totalSize) >= totalSize
     THEN (n \div totalSize) + 1
     ELSE n \div totalSize

\* the loop from its test `offset < totalSize` to the next `await fetch`
\* (Content-Range: bytes offset-(end - 1)/totalSize) or to the return
NextChunk(u) ==
  IF u.offset < u.totalSize
  THEN LET e == ChunkEnd(u.offset, u.totalSize)
       IN [u EXCEPT !.st = "awaiting", !.end = e,
                    !.requests = Append(@, [first |-> u.offset, last |-> e - 1,
                                            total |-> u.totalSize])]
  ELSE [u EXCEPT !.st = "done"]

\* uploadBlobResumable(uploadUri, blob, onProgress) up to the first fetch;
\* its only caller is uploadVideoToGcs, with the handle it just obtained
StartUpload(size) ==
  /\ upload.st = "ready"
  /\ upload' = NextChunk([upload EXCEPT !.st = "loop", !.totalSize = size])
  /\ UNCHANGED <<orchestratorVars, urlCall>>

\* the response of a chunk PUT arrives: throw, or advance the offset, report
\* the progress and go round the loop
ChunkResponse(status) ==
  /\ upload.st = "awaiting"
  /\ IF ~ResponseOk(status) /\ status # 308
     THEN upload' = [upload EXCEPT !.st = "failed", !.lastStatus = status]
     ELSE upload' = NextChunk(
            [upload EXCEPT !.offset = upload.end,
                           !.lastStatus = status,
                           !.progress = Append(@, Percent(upload.end,
                                                          upload.totalSize))])
  /\ UNCHANGED <<orchestratorVars, urlCall>>

\* ---- functions/src/storage/getUploadUrl.ts ----

ALLOWED_TYPES == {"video/webm", "video/mp4", "video/quicktime"}

\* context.auth is absent (NULL) or carries the caller's uid
AuthUids == {NULL, "t1", "t2"}

\* data.path, split at "/"
Paths ==
  {<<"trainers", "t1", "sessions", "s1", "recording.webm">>,
   <<"trainers", "t2", "sessions", "s1", "recording.mp4">>,
   <<"trainers", "t1", "">>,
   <<"trainers", "t1">>,
   <<"public", "t1", "recording.webm">>}

ContentTypes ==
  {"video/webm", "video/mp4", "video/quicktime", "video/webm;codecs=vp9",
   "image/png"}

\* path.startsWith(`trainers/${uid}/`)
StartsWithOwnFolder(path, uid) ==
  Len(path) >= 3 /\ path[1] = "trainers" /\ path[2] = uid

Rejected(code) == [error |-> code, returned |-> FALSE, created |-> {}]

\* the checks of the callable and file.createResumableUpload
getUploadUrlTypeFirst(auth, path, contentType) ==
  IF auth = NULL THEN Rejected("unauthenticated")
  ELSE IF contentType \notin ALLOWED_TYPES THEN Rejected("invalid-argument")
  ELSE IF ~StartsWithOwnFolder(path, auth) THEN Rejected("permission-denied")
  ELSE [error |-> NULL, returned |-> TRUE,
        created |-> {[path |-> path, contentType |-> contentType,
                      uploadedBy |-> auth]}]
getUploadUrl(auth, path, contentType) ==
  IF auth = NULL THEN Rejected("unauthenticated")
  ELSE IF ~StartsWithOwnFolder(path, auth) THEN Rejected("permission-denied")
  ELSE IF contentType \notin ALLOWED_TYPES THEN Rejected("invalid-argument")
  ELSE [error |-> NULL, returned |-> TRUE,
        created |-> {[path |-> path, contentType |-> contentType,
                      uploadedBy |-> auth]}]

\* a client calls the function
GetUploadUrl(auth, path, contentType) ==
  /\ urlCall' = [called |-> TRUE, auth |-> auth, path |-> path,
                 contentType |-> contentType,
                 result |-> getUploadUrl(auth, path, contentType)]
  /\ UNCHANGED <<orchestratorVars, upload>>

\* ---- gcsService.ts: uploadVideoToGcs ----

\* blob.type: the mimeType of the recorder (Recorder.tsx, startRecording),
\* empty when the recorder reports none
RecorderTypes == {"video/webm;codecs=vp8,opus", "video/mp4", "video/webm", ""}

\* blob.type || 'video/webm'
ContentTypeOf(blobType) == IF blobType = "" THEN "video/webm" ELSE blobType

\* `trainers/${trainerId}/sessions/${sessionId}/recording.${ext}`, split at "/"
UploadPath(trainerId, ext) ==
  <<"trainers", trainerId, "sessions", "s1",
    IF ext = "mp4" THEN "recording.mp4" ELSE "recording.webm">>

\* uploadVideoToGcs up to `await getResumableUploadUri(...)`: every attempt
\* asks the upload-target function for a new handle; a rejection is thrown
RequestUploadUri(auth, trainerId, blobType) ==
  /\ upload.st \in {"idle", "done", "failed", "rejected"}
  /\ LET path == UploadPath(trainerId, ExtOf(blobType))
         ty == ContentTypeOf(blobType)
         r == getUploadUrl(auth, path, ty)
     IN /\ urlCall' = [called |-> TRUE, auth |-> auth, path |-> path,
                       contentType |-> ty, result |-> r]
        /\ upload' = [NoUpload EXCEPT
                        !.st = IF r.returned THEN "ready" ELSE "rejected",
                        !.contentType = ty, !.uriError = r.error]
  /\ UNCHANGED orchestratorVars

\* ---- the specifications ----

\* the calls of the producer: enqueue, init, saveVideo
Calls(Tr, Ty) ==
  \/ \E c \in Callers, tr \in Tr, s \in Sessions : Enqueue(c, tr, s)
  \/ \E c \in Callers, tr \in Tr : InitCall(c, tr)
  \/ \E s \in Sessions, ty \in Ty : SaveVideo(s, ty)

\* the steps of the orchestrator; Storage is the set of outcomes of a
\* write to the queue store (TRUE: the transaction completes)
Steps(Storage) ==
  \/ \E c \in Callers : EnqueueTrigger(c)
  \/ \E c \in Callers : InitTrigger(c)
  \/ \E c \in Callers : EndPass(c)
  \/ \E c \in Callers, putOk \in Storage : BeginTask(c, putOk)
  \/ \E c \in Callers, ok \in BOOLEAN : NotifyUploading(c, ok)
  \/ \E c \in Callers, putOk \in Storage : ReadBlob(c, putOk)
  \/ \E c \in Callers, ok \in BOOLEAN, putOk \in Storage : Upload(c, ok, putOk)
  \/ \E c \in Callers, ok \in BOOLEAN, deleteOk \in Storage, putOk \in Storage :
       AfterSynced(c, ok, deleteOk, putOk)
  \/ \E c \in Callers, ok \in BOOLEAN, putOk \in Storage :
       FinishFailed(c, ok, putOk)

Orchestrator(Storage) == Calls(Trainers, BlobTypes) \/ Steps(Storage)

Next ==
  \/ Orchestrator({TRUE})
  \/ OpenBlobStore
  \/ Restart
  \/ GoOffline
  \/ GoOnline

Spec == Init /\ [][Next]_vars

\* the queue store may reject a write (quota, aborted transaction)
NextFaults ==
  \/ Orchestrator(BOOLEAN)
  \/ OpenBlobStore
  \/ Restart
  \/ GoOffline
  \/ GoOnline

SpecFaults == Init /\ [][NextFaults]_vars

\* the device stays online and the page stays open
NextOnline == Orchestrator({TRUE})

SpecOnline == Init /\ [][NextOnline]_vars

\* as SpecOnline, with a second trainer and mp4 recordings
AllTrainers == {"t1", "t2"}
AllBlobTypes == {"video/webm", "video/mp4"}

NextPaths == Calls(AllTrainers, AllBlobTypes) \/ Steps({TRUE})

SpecPaths == Init /\ [][NextPaths]_vars

\* App.tsx handleSessionComplete: saveVideo(sessionId, blob) is started and
\* not awaited, then enqueue(trainerId, sessionId, sessionId) is called; the
\* session id is new (`sess-${Date.now()}`)
HandleSessionComplete(c, trainerId, sessionId) ==
  /\ enqCount[sessionId] = 0
  /\ videos[sessionId] = NoBlob
  /\ Enqueue(c, trainerId, sessionId)

\* the put of that saveVideo call completes
BlobPutCompletes(sessionId, blobType) ==
  /\ enqCount[sessionId] > 0
  /\ SaveVideo(sessionId, blobType)

\* sessions are produced by the session-complete handler only
NextHandler ==
  \/ \E c \in Callers, tr \in Trainers, s \in Sessions :
       HandleSessionComplete(c, tr, s)
  \/ \E s \in Sessions, ty \in BlobTypes : BlobPutCompletes(s, ty)
  \/ \E c \in Callers, tr \in Trainers : InitCall(c, tr)
  \/ Steps({TRUE})

SpecHandler == Init /\ [][NextHandler]_vars

\* uploadBlobResumable on blobs of every size of BlobSizes, getUploadUrl on
\* every caller, path and content type
NextUploader ==
  \/ \E auth \in AuthUids, tr \in AllTrainers, ty \in RecorderTypes :
       RequestUploadUri(auth, tr, ty)
  \/ \E size \in BlobSizes : StartUpload(size)
  \/ \E status \in HttpStatuses : ChunkResponse(status)
  \/ \E auth \in AuthUids, path \in Paths, ty \in ContentTypes :
       GetUploadUrl(auth, path, ty)

SpecUploader == Init /\ [][NextUploader]_vars

\* ---- the claims ----

PassPcs == {"loop", "marked", "reading", "uploading", "synced", "failing"}
TaskPcs == {"marked", "reading", "uploading", "synced", "failing"}

TasksOf(q, sessionId) == {t \in q : t.sessionId = sessionId}

AllIdle == \A c \in Callers : pc[c] = "idle"

\* C1: the queue never holds two tasks with the same sessionId, whatever
\* the interleaving of enqueue calls and processing passes.
C1_OneTaskPerSession ==
  \A s \in Sessions : Cardinality(TasksOf(queue, s)) <= 1

\* enqueue was called twice for a session, the second time during an attempt
\* of that session, and the queue holds exactly one (fresh) task for it
C1_Witness ==
  \E s \in Sessions, c \in Callers :
    /\ enqCount[s] = 2
    /\ pc[c] \in TaskPcs /\ task[c].sessionId = s
    /\ Cardinality(TasksOf(queue, s)) = 1
    /\ \A t \in TasksOf(queue, s) : t.status = "pending" /\ t.lastAttempt = NULL

\* C2: once init() has started a pass in the restarted process and the
\* orchestrator is idle again, no task is left persisted as in_progress (a
\* task found in_progress at startup has been attempted again).
C2_InProgressRetried ==
  (initRan /\ AllIdle) => \A t \in queue : t.status # "in_progress"

\* C3: for a task enqueued once, the persisted retryCount equals the number
\* of failed attempts N, and the persisted status is failed iff N >= 5.
C3_RetryCount ==
  \A t \in queue :
    enqCount[t.sessionId] = 1 =>
      /\ t.retryCount = failedAttempts[t.sessionId]
      /\ (t.status = "failed") <=> (failedAttempts[t.sessionId] >= MAX_RETRIES)

\* a task enqueued once that failed five attempts, and one that failed two
C3_Witness ==
  \E t \in queue :
    /\ enqCount[t.sessionId] = 1
    /\ failedAttempts[t.sessionId] = MAX_RETRIES
    /\ t.status = "failed" /\ t.retryCount = MAX_RETRIES

\* C4: when an attempt whose chunked upload succeeded is over, the task is
\* not in the queue any more and the repository was sent syncStatus synced
\* with the remote path.
C4_SuccessRemovesTask ==
  [][\A c \in Callers :
       (pc[c] = "synced" /\ pc'[c] = "loop") =>
         /\ \A t \in queue' : t.id # task[c].id
         /\ metaSent'[SessionOf(c)].syncStatus = "synced"
         /\ metaSent'[SessionOf(c)].videoPath # NULL]_vars

\* C5: a rejected write of 'synced' after a successful upload neither keeps
\* the task in the queue nor charges the attempt to retryCount.
C5_MetaFailureNoRollback ==
  [][\A c \in Callers :
       (pc[c] = "synced" /\ pc'[c] \in {"loop", "failing"}) =>
         /\ TasksOf(queue', SessionOf(c)) = {}
         /\ failedAttempts' = failedAttempts
         /\ pc'[c] = "loop"]_vars

\* C6: at most one call chain is inside a processQueue pass, so at most one
\* task is between being marked in_progress and being resolved; the pass in
\* flight is the holder of isProcessing.
C6_SingleFlight ==
  /\ Cardinality({c \in Callers : pc[c] \in PassPcs}) <= 1
  /\ Cardinality({c \in Callers : pc[c] \in TaskPcs}) <= 1
  /\ isProcessing <=> (\E c \in Callers : pc[c] \in PassPcs)

\* a pass is inside a task while another call chain is about to call
\* processQueue
C6_Witness ==
  \E c, d \in Callers :
    /\ pc[c] \in TaskPcs
    /\ pc[d] \in {"enqueue", "init"}
    /\ isProcessing

\* C7: after five failed attempts of a task enqueued once, the task is
\* persisted as failed with retryCount 5, the last syncStatus sent to the
\* repository is failed, and exactly one 'failed' notification was delivered,
\* however many passes run afterwards.
C7_FailedOnce ==
  \A s \in Sessions :
    (enqCount[s] = 1 /\ failedAttempts[s] >= MAX_RETRIES) =>
      /\ failedAttempts[s] = MAX_RETRIES
      /\ failedNotes[s] = 1
      /\ metaSent[s].syncStatus = "failed"
      /\ \A t \in TasksOf(queue, s) :
           t.status = "failed" /\ t.retryCount = MAX_RETRIES

\* session 2 has failed for good and a later pass (passes take the tasks in
\* key order) is inside the task of session 1
C7_Witness ==
  /\ enqCount[2] = 1 /\ failedAttempts[2] = MAX_RETRIES /\ failedNotes[2] = 1
  /\ \E t \in TasksOf(queue, 2) : t.status = "failed"
  /\ \E c \in Callers : pc[c] \in TaskPcs /\ task[c].sessionId = 1

\* C8: nothing escapes processTask: a pass ends only in the finally block
\* after the loop has gone through all the pending tasks of its snapshot.
C8_NothingEscapes ==
  [][\A c \in Callers :
       (pc[c] \in PassPcs /\ pc'[c] = "idle" /\ db') =>
         (pc[c] = "loop" /\ pending[c] = <<>>)]_vars

\* C9: a task that was put stays visible to getAll until the orchestrator
\* deletes it after a successful upload, across restarts and for every order
\* in which the two modules open the database.
C9_PutSurvives ==
  [][\A t \in queue :
       \/ \E u \in queue' : u.id = t.id
       \/ \E c \in Callers :
            pc[c] = "synced" /\ task[c].id = t.id /\ pc'[c] = "loop"]_vars

\* C10: while the device is online and the page open, once every call chain
\* has finished, every task in the queue has been attempted (lastAttempt is
\* stamped when a task is marked in_progress).
C10_EnqueueAttempted ==
  AllIdle => \A t \in queue : t.lastAttempt # NULL

\* a task as enqueue() persists it
Fresh(t) == t.status = "pending" /\ t.retryCount = 0 /\ t.lastAttempt = NULL

\* C11: when connectivity changes from offline to online in a process that
\* used the queue, while a pending task waits and no call of enqueue or
\* init is under way, that transition starts a pass of the queue
C11_OnlineResumes ==
  [][(~online /\ online' /\ db /\ AllIdle /\ \E t \in queue : IsPending(t))
       => isProcessing']_vars

\* C12: the processQueue call of an enqueue or init that runs while the
\* device is offline ends the call without starting a pass and changes
\* neither the queue, the blob store nor what was sent to the repository;
\* the task an enqueue persisted is pending with retryCount 0 and
\* lastAttempt null
C12_OfflineNoOp ==
  [][\A c \in Callers :
       /\ (pc[c] \in {"enqueue", "init"} /\ pc'[c] # pc[c] /\ ~online /\ db')
            => /\ pc'[c] = "idle"
               /\ \A d \in Callers : pc'[d] \in PassPcs => pc[d] \in PassPcs
               /\ UNCHANGED <<queue, videos, isProcessing, metaSent,
                              failedAttempts, failedNotes>>
       /\ (pc[c] = "idle" /\ pc'[c] = "enqueue" /\ ~online)
            => \E s \in Sessions :
                 /\ enqCount'[s] = enqCount[s] + 1
                 /\ TasksOf(queue', s) # {}
                 /\ \A t \in TasksOf(queue', s) : Fresh(t)]_vars

C12_Witness ==
  /\ db /\ ~online /\ ~isProcessing /\ AllIdle
  /\ EnqueuesSoFar = 1
  /\ \E t \in queue : Fresh(t)
  /\ \A s \in Sessions : metaSent[s].syncStatus = NULL

\* C13: a fresh task (pending, retryCount 0, lastAttempt null) stays in the
\* queue until a pass claims it, also when an attempt for the same session
\* is in flight
C13_FreshTaskStays ==
  [][\A t \in queue :
       Fresh(t) =>
         \/ t \in queue'
         \/ \E c \in Callers : /\ pc[c] = "loop" /\ pc'[c] = "marked"
                               /\ task'[c].id = t.id]_vars

\* the persisted task of a session before and after a step of a pass
AllowedChange(old, new) ==
  \/ new = old
  \/ \E o \in old, n \in new : /\ o.status = "pending"
                               /\ n.status = "in_progress"
                               /\ n.retryCount = o.retryCount
  \/ \E o \in old : o.status = "in_progress" /\ new = {}
  \/ \E o \in old, n \in new : /\ o.status = "in_progress"
                               /\ n.status \in {"pending", "failed"}
                               /\ n.retryCount = o.retryCount + 1

\* C17: every change a step of a pass makes to the persisted task of a
\* session is pending -> in_progress with the same retryCount, in_progress
\* -> deleted, or in_progress -> pending / failed with retryCount + 1; the
\* pass never lowers retryCount
C17_Transitions ==
  [][(\E c \in Callers : pc[c] \in PassPcs /\ pc'[c] # pc[c]) =>
       \A s \in Sessions :
         /\ AllowedChange(TasksOf(queue, s), TasksOf(queue', s))
         /\ \A o \in TasksOf(queue, s), n \in TasksOf(queue', s) :
              n.retryCount >= o.retryCount]_vars

\* the blob a task points to, as the blob store holds it
StoredType(t) == videos[t.blobKey]

\* C18: when an attempt's upload succeeded, the path written to the
\* repository (the one requested from the uploader) is the gcsPath stored in
\* the task
C18_PathIsStoredPath ==
  \A c \in Callers :
    pc[c] = "synced" => metaSent[SessionOf(c)].videoPath = task[c].gcsPath

\* C18 amended: that path is built at upload time from the trainerId of the
\* call that started the pass, the task's sessionId and the extension of the
\* blob's MIME type (mp4 for video/mp4, webm otherwise); it is the stored
\* gcsPath exactly when the blob is not mp4 and the trainerId is the
\* enqueuing one
C18_PathBuiltAtUpload ==
  \A c \in Callers :
    pc[c] = "synced" =>
      LET written == metaSent[SessionOf(c)].videoPath
          mp4 == StoredType(task[c]) = "video/mp4"
      IN /\ written.trainer = trainerArg[c]
         /\ written.session = task[c].sessionId
         /\ written.ext = (IF mp4 THEN "mp4" ELSE "webm")
         /\ (written = task[c].gcsPath) <=>
              (~mp4 /\ trainerArg[c] = task[c].gcsPath.trainer)

C18_Witness ==
  \E c \in Callers :
    /\ pc[c] = "synced"
    /\ StoredType(task[c]) = "video/mp4"
    /\ metaSent[SessionOf(c)].videoPath.ext = "mp4"
    /\ task[c].gcsPath.ext = "webm"

\* C19: while a pass works on a task of the session-complete handler, the
\* handler's blob put has completed
C19_BlobStoredBeforeClaim ==
  \A c \in Callers : pc[c] \in TaskPcs => StoredType(task[c]) # NoBlob

NonDecreasing(seq) ==
  \A i \in 1..Len(seq), j \in 1..Len(seq) : i <= j => seq[i] <= seq[j]

\* C14: the progress values of an upload never decrease, and an upload that
\* completed has delivered 100 as its last value, whatever the blob size
C14_ProgressEndsAt100 ==
  /\ NonDecreasing(upload.progress)
  /\ upload.st = "done" =>
       /\ upload.progress # <<>>
       /\ upload.progress[Len(upload.progress)] = 100

\* C15: a progress value of 100 is the last one and is delivered when every
\* byte was sent and accepted
C15_HundredOnlyWhenComplete ==
  \A i \in 1..Len(upload.progress) :
    upload.progress[i] = 100 =>
      i = Len(upload.progress) /\ upload.offset = upload.totalSize

\* C16: the function returns an upload handle, having created one resumable
\* session for the path, exactly when the caller is authenticated, the path
\* starts with trainers/{uid}/ and the content type is video/webm, video/mp4
\* or video/quicktime; otherwise it creates nothing and fails with
\* unauthenticated, permission-denied or invalid-argument, the first check
\* that fails in this order
C16_UploadUrlChecks ==
  urlCall.called =>
    LET r == urlCall.result
        authed == urlCall.auth # NULL
        own == /\ Len(urlCall.path) > 2
               /\ SubSeq(urlCall.path, 1, 2) = <<"trainers", urlCall.auth>>
        allowed == \/ urlCall.contentType = "video/webm"
                   \/ urlCall.contentType = "video/mp4"
                   \/ urlCall.contentType = "video/quicktime"
    IN /\ r.returned <=> (authed /\ own /\ allowed)
       /\ r.returned =>
            /\ r.error = NULL
            /\ r.created = {[path |-> urlCall.path,
                             contentType |-> urlCall.contentType,
                             uploadedBy |-> urlCall.auth]}
       /\ ~r.returned => r.created = {}
       /\ ~authed => r.error = "unauthenticated"
       /\ (authed /\ ~own) => r.error = "permission-denied"
       /\ (authed /\ own /\ ~allowed) => r.error = "invalid-argument"

C16_Witness ==
  /\ urlCall.called
  /\ urlCall.auth = "t1"
  /\ urlCall.path[2] = "t2"
  /\ urlCall.contentType = "image/png"
  /\ urlCall.result.error = "permission-denied"
  /\ urlCall.result.created = {}

\* C20: the k-th chunk request carries the bytes k*C .. min((k+1)*C, S) - 1
\* of S (k from 0); a request is sent only after the response to the one
\* before, and every accepted chunk is followed by one progress call; an
\* upload that completed has sent ceil(S/C) requests (3 of them, with
\* progress 42, 83, 100, for 12 MiB)
C20_ChunkRanges ==
  LET n == Len(upload.requests)
      S == upload.totalSize
  IN /\ \A k \in 1..n :
          upload.requests[k] =
            [first |-> (k - 1) * CHUNK_SIZE,
             last |-> (IF k * CHUNK_SIZE < S THEN k * CHUNK_SIZE ELSE S) - 1,
             total |-> S]
     /\ Len(upload.progress) =
          (IF upload.st \in {"awaiting", "failed"} THEN n - 1 ELSE n)
     /\ upload.st = "done" =>
          /\ n = (S + CHUNK_SIZE - 1) \div CHUNK_SIZE
          /\ (S = 12 * 1024 * 1024 => upload.progress = <<42, 83, 100>>)

C20_Witness ==
  /\ upload.st = "done"
  /\ upload.totalSize = 12 * 1024 * 1024
  /\ Len(upload.requests) = 3
  /\ upload.requests[3] =
       [first |-> 10 * 1024 * 1024, last |-> 12 * 1024 * 1024 - 1,
        total |-> 12 * 1024 * 1024]

\* C21: an upload of a non-empty blob has returned successfully only after
\* a 2xx response, and a chunk is sent after another only when the response
\* to that one was 308
C21_DoneAfter2xx ==
  upload.totalSize > 0 =>
    /\ upload.st = "done" =>
         (upload.lastStatus >= 200 /\ upload.lastStatus <= 299)
    /\ (upload.st = "awaiting" /\ Len(upload.requests) > 1) =>
         upload.lastStatus = 308

\* the upload after a response that is neither 2xx nor 308
HardFailure(u) ==
  /\ u.st = "failed"
  /\ Len(u.progress) = Len(u.requests) - 1
  /\ u.offset = u.requests[Len(u.requests)].first

\* C22: a chunk response that is neither 2xx nor 308 fails the upload: the
\* offset does not advance, no progress is reported for that chunk and no
\* chunk follows on that handle; the next thing the uploader does is to
\* request a new handle, and the upload on it starts at byte 0
C22_HardFailure ==
  [][/\ (upload'.lastStatus \notin {0, 308} /\
         ~(upload'.lastStatus >= 200 /\ upload'.lastStatus <= 299))
          => HardFailure(upload')
     /\ upload'.st = "failed" => upload'.lastStatus \notin {0, 200, 308}
     /\ (upload.st = "failed" /\ upload' # upload)
          => /\ upload'.st \in {"ready", "rejected"}
             /\ urlCall'.called
             /\ upload'.st = "ready" <=> upload'.uriError = NULL
             /\ upload'.requests = <<>> /\ upload'.offset = 0
     /\ (upload.st = "ready" /\ upload'.st = "awaiting")
          => (upload.uriError = NULL /\ upload'.requests[1].first = 0)]_vars

C22_Witness ==
  /\ upload.st = "failed"
  /\ upload.lastStatus = 503
  /\ Len(upload.requests) = 2
  /\ upload.progress = <<50>>

\* C30: the content type the uploader sends for a recorded blob is one the
\* upload-target function allows, so the request for a handle is not
\* rejected with invalid-argument
C30_RecorderTypeAllowed ==
  upload.st # "idle" =>
    /\ upload.contentType \in {"video/webm", "video/mp4", "video/quicktime"}
    /\ upload.uriError # "invalid-argument"

\* an attempt of chain c is resolved as failed without exhausting the budget
\* in this step: the task is written back as pending
RetryStep(c) ==
  /\ pc[c] \in {"reading", "uploading", "synced"}
  /\ pc'[c] = "loop"
  /\ \E t \in queue' : t.id = task[c].id /\ t.status = "pending"

C24_RetryRange ==
  \A t \in queue :
    /\ t.retryCount \in 0..MAX_RETRIES
    /\ t.status \in {"pending", "in_progress"} => t.retryCount <= MAX_RETRIES - 1
    /\ t.status = "failed" => t.retryCount = MAX_RETRIES

C24_Witness ==
  /\ \E t \in queue : t.status = "in_progress" /\ t.retryCount = MAX_RETRIES - 1
  /\ \E t \in queue : t.status = "failed" /\ t.retryCount = MAX_RETRIES

\* C25: when a pass ends, normally or by an error that escaped, isProcessing
\* is false; an enqueue or init that reaches processQueue online while no
\* pass runs starts a pass
C25_FlagReleased ==
  [][\A c \in Callers :
       /\ (pc[c] \in PassPcs /\ pc'[c] = "idle") => ~isProcessing'
       /\ (/\ pc[c] \in {"enqueue", "init"} /\ pc'[c] # pc[c] /\ db' /\ online
           /\ \A d \in Callers : pc[d] \notin PassPcs)
            => (pc'[c] = "loop" /\ isProcessing')]_vars

\* the write of the exhausted task was rejected after onStatus 'failed'
C25_Witness ==
  /\ db /\ ~isProcessing /\ AllIdle
  /\ \E t \in queue : /\ t.status = "in_progress"
                       /\ t.retryCount = MAX_RETRIES - 1
                       /\ enqCount[t.sessionId] = 1
                       /\ failedNotes[t.sessionId] = 1

\* C26: the task a pass claims is the record its snapshot read: a task that
\* was enqueued again after the snapshot was taken is not attempted by that
\* pass
C26_SnapshotOnly ==
  [][\A c \in Callers :
       (pc[c] = "loop" /\ pc'[c] = "marked") => Head(pending[c]) \in queue]_vars

====
